---- MODULE Spec2Model ----
(***************************************************************************)
(* The persistent-session driver of phasma (DriverPersistent) and the      *)
(* bootstrap script it runs inside the engine (processCommands), as two    *)
(* processes that share only the command file and the response file.       *)
(*                                                                         *)
(* Time is counted in milliseconds of the controller's clock, and only the *)
(* controller's sleeps advance it.                                         *)
(***************************************************************************)
EXTENDS Integers, Sequences, FiniteSets, TLC

\* ------------------------------------------------------------ bounds
\* Number of public driver calls (start, send_command, close) in one run.
MaxOps == 3

\* ------------------------------------------------- program constants
\* time.sleep(0.05) of the response-wait loop, in ms.
PollSleep == 50
\* send_command("close", timeout=5.0), in ms.
CloseTimeout == 5000

\* The timeouts a caller passes: 1 ms (shorter than any engine latency)
\* and 100 ms (two polls).
Timeouts == {1, 100}
\* The engine needs more than the shortest timeout to answer a command.
EngineMinLatency == 2

\* The action vocabulary of the bootstrap script, and one action outside it.
Actions == {"navigate", "evaluate", "click", "fill", "screenshot", "close", "other"}
SyncActions == {"evaluate", "click", "fill", "screenshot"}
\* the actions whose branch of processCommands writes a response
Answerable == SyncActions \cup {"navigate"}

\* "while time.time() - start_time < 10", in ms.
StartTimeout == 10000
\* How long one blocked stretch of readline() lasts, in ms.
BlockQuantum == 6000

Sessions == 1..MaxOps
None == 0
Kinds == {"cmd", "rsp", "js"}
NoCmd == [id |-> 0, action |-> "none"]
Empty == [for |-> 0, type |-> "empty", data |-> "none"]

VARIABLES
  \* DriverPersistent fields
  process,        \* _process: None or the session whose Popen handle it is
  is_closed,      \* _is_closed
  temp_scripts,   \* _temp_scripts: sequence of file names
  command_file,   \* _command_file: None or the session of the .cmd file
  response_file,  \* _response_file
  handles_open,   \* the NamedTemporaryFile handles are open
  \* operating system
  proc,           \* proc[s]: "unborn" | "running" | "exited" | "killed"
  signalled,      \* signalled[s]: "none" | "term" | "kill"
  exists,         \* set of <<session, kind>> files on disk
  cmdf,           \* cmdf[s]: content of the command file of session s
  rspf,           \* rspf[s]: content of the response file of session s
  stdout,         \* stdout[s]: lines the engine printed, not yet read
  platform,       \* "posix" | "windows": whether a file held open can be unlinked
  \* the engine of session s (the bootstrap script)
  epc,            \* "boot" | "poll" | "read" | "handle" | "write" | "exiting"
  ecur,           \* the command the current poll read
  navs,           \* navigations in flight: set of [id, stage]
  ewr,            \* the response whose write to the response file is under way
  executed,       \* ids of the commands the engine dispatched, in order
  answers,        \* answers[s]: ids of the commands owed a response, ids answered
  \* the caller's thread
  pc,             \* where the caller is
  op,             \* the public call in progress: "none" | "start" | "send" | "close"
  call,           \* locals of send_command: [id, action, timeout, elapsed, content]
  idx,            \* close(): index into temp_scripts
  last,           \* how the last public call (or inner send_command) ended
  start_elapsed,  \* start_persistent_session: time.time() - start_time, in ms
  destroyed,      \* __del__ has run: the driver object is gone
  ready_seen,     \* sessions from whose standard output a READY line was read
  \* history
  ops,            \* number of public calls made
  nstarts,        \* number of sessions allocated
  nextId,         \* number of commands written
  timedOut,       \* a send_command of the current session has timed out
  written,        \* written[s]: ids of the commands written to session s, in order
  effects,        \* what the public call in progress did so far
  \* the page layer (browser.py) and the data of one session
  page,           \* the engine's page object: [url, field, shown, late]
  pcmdf,          \* the command file with its arguments
  prspf,          \* the response file as the bytes the engine wrote
  peng,           \* the engine's poll: [pc, cur]
  pnavs,          \* page.open calls in flight: set of [id, url, stage]
  ppc,            \* where the Page method is: "idle" | "poll" | "clear"
  pcall,          \* the Page method in progress and its send_command locals
  pout,           \* how the last Page method ended
  page_url,       \* Page._url of each Page object
  pops,           \* number of Page methods called
  phandled,       \* phandled[k]: what command k's selector matched when handled
  pexpect,        \* the page state the commands executed so far describe
  \* threads that call send_command on one session at the same time
  tpc,            \* tpc[t]: where thread t is: "idle" | "poll" | "clear"
  tcall,          \* tcall[t]: locals of thread t's send_command
  tlast,          \* tlast[t]: how thread t's last send_command ended
  tcount,         \* tcount[t]: number of send_command calls thread t made
  overwritten,    \* ids of the commands overwritten before the engine read them
  \* Page.pdf
  pdf             \* the pdf call: [pc, script, exit]

vars == << process, is_closed, temp_scripts, command_file, response_file,
           handles_open, proc, signalled, exists, cmdf, rspf, stdout, platform,
           epc, ecur, navs, ewr, executed, answers, pc, op, call, idx, last,
           start_elapsed, destroyed, ready_seen,
           ops, nstarts, nextId, timedOut, written, effects,
           page, pcmdf, prspf, peng, pnavs, ppc, pcall, pout, page_url, pops,
           phandled, pexpect, tpc, tcall, tlast, tcount, overwritten, pdf >>

driverVars == << process, is_closed, temp_scripts, command_file, response_file, handles_open >>
osVars == << proc, signalled, exists, cmdf, rspf, stdout, platform >>
engineVars == << epc, ecur, navs, ewr, executed, answers >>
lifeVars == << start_elapsed, destroyed, ready_seen >>
callerVars == << pc, op, call, idx, last, lifeVars >>
historyVars == << ops, nstarts, nextId, timedOut, written, effects >>
threadVars == << tpc, tcall, tlast, tcount, overwritten >>
pageOnlyVars == << page, pcmdf, prspf, peng, pnavs, ppc, pcall, pout, page_url, pops,
                   phandled, pexpect >>
\* what the actions of the driver and its engine leave alone
pdfVars == << pdf >>
pageVars == << pageOnlyVars, threadVars, pdfVars >>
\* what the actions of the page layer leave alone
baseVars == << driverVars, osVars, engineVars, callerVars, historyVars, threadVars, pdfVars >>

NoCall == [id |-> 0, action |-> "none", timeout |-> 0, elapsed |-> 0, content |-> Empty]
NoLast == [op |-> "none", kind |-> "none", id |-> 0, for |-> 0, timeout |-> 0]
NoEffects == [wrote |-> FALSE, read |-> FALSE, signal |-> FALSE, spawned |-> FALSE,
              unlink_failed |-> FALSE, reclose |-> FALSE, owned |-> FALSE,
              exec |-> FALSE, args |-> {}, unparsed |-> FALSE]

\* DriverPersistent.__init__
\* ------------------------------------------------------------------
\* The data of a session: the engine's page, commands and responses
\* ------------------------------------------------------------------

\* Page methods called in a behaviour of the page layer.
MaxPageOps == 3
\* The wait loop's clock is exact below ClockCap; at ClockCap it stands for
\* every elapsed time from ClockCap on.
ClockCap == 100

Pages == {1}
\* The Page objects made from one Browser: page1 and page2 of one context.
PageObjects == {1, 2}
\* What eval_on_selector reads from the element: this.value and
\* this.getAttribute('title').
SelectorExpressions == {"value", "title"}
Urls == {"form", "plain", "bad"}
Selectors == {"#name", "button", "#late"}
\* a text is a sequence of characters; "e_acute" is one non-ASCII character
FillValues == { << "J" >>, << "e_acute" >> }
Expressions == {"sum", "field", "result", "undefined"}
\* Page.goto's timeout argument, in ms
GotoTimeouts == {1, 30000}
\* timeout=60.0 of the driver calls Page.click, fill, evaluate make, in ms
PageTimeout == 60000
\* Page.wait_for_selector's default timeout argument, in ms
WaitTimeout == 30000

\* JavaScript values of the engine
Undefined == [t |-> "undefined", v |-> << >>]
Null == [t |-> "null", v |-> << >>]
Bool(b) == [t |-> "boolean", v |-> << b >>]
Num(n) == [t |-> "number", v |-> << n >>]
Str(s) == [t |-> "string", v |-> s]

\* Python values of the caller
PyNone == [t |-> "None", v |-> << >>]
PyBool(b) == [t |-> "bool", v |-> << b >>]
PyInt(n) == [t |-> "int", v |-> << n >>]
PyStr(s) == [t |-> "str", v |-> s]

BlankPage == [url |-> "blank", field |-> << >>, shown |-> << >>, late |-> FALSE]
NoPCmd == [id |-> 0, action |-> "none", url |-> "-", sel |-> "-", val |-> << >>, expr |-> "-"]
EmptyFile == [for |-> 0, type |-> "empty", data |-> << >>, js |-> Undefined]
NoPCall == [page |-> 0, method |-> "none", cmd |-> NoPCmd, timeout |-> 0, wtimeout |-> 0,
            elapsed |-> 0, content |-> EmptyFile]
\* the pdf call: where it is, whether its temporary script is on disk, and
\* how the one-shot run of the engine ended
NoPdf == [pc |-> "idle", script |-> FALSE, exit |-> "none"]
NoPOut == [method |-> "none", page |-> 0, cmd |-> NoPCmd, kind |-> "none", value |-> PyNone,
           result |-> "none", for |-> 0, sent |-> Undefined, elapsed |-> 0, wtimeout |-> 0]

\* No Page method has been called yet: var page = require('webpage').create()
PageIdle ==
  /\ page = BlankPage
  /\ pcmdf = NoPCmd
  /\ prspf = EmptyFile
  /\ peng = [pc |-> "poll", cur |-> NoPCmd]
  /\ pnavs = {}
  /\ ppc = "idle"
  /\ pcall = NoPCall
  /\ pout = NoPOut
  /\ page_url = [p \in PageObjects |-> "none"]
  /\ pops = 0
  /\ phandled = [k \in 1..MaxPageOps |-> "unhandled"]
  /\ pexpect = [known |-> TRUE, url |-> "blank", field |-> << >>, shown |-> << >>]
  /\ pdf = NoPdf

\* Threads that share the driver.
Threads == {1, 2}
\* send_command calls a thread makes.
MaxThreadCalls == 1

\* No thread has called send_command yet.
ThreadsIdle ==
  /\ tpc = [t \in Threads |-> "idle"]
  /\ tcall = [t \in Threads |-> NoCall]
  /\ tlast = [t \in Threads |-> NoLast]
  /\ tcount = [t \in Threads |-> 0]
  /\ overwritten = {}

Init ==
  /\ process = None
  /\ is_closed = FALSE
  /\ temp_scripts = << >>
  /\ command_file = None
  /\ response_file = None
  /\ handles_open = FALSE
  /\ proc = [s \in Sessions |-> "unborn"]
  /\ signalled = [s \in Sessions |-> "none"]
  /\ exists = {}
  /\ cmdf = [s \in Sessions |-> NoCmd]
  /\ rspf = [s \in Sessions |-> Empty]
  /\ stdout = [s \in Sessions |-> << >>]
  /\ platform \in {"posix", "windows"}
  /\ epc = [s \in Sessions |-> "boot"]
  /\ ecur = [s \in Sessions |-> NoCmd]
  /\ navs = [s \in Sessions |-> {}]
  /\ ewr = [s \in Sessions |-> Empty]
  /\ executed = [s \in Sessions |-> << >>]
  /\ answers = [s \in Sessions |-> [owed |-> {}, given |-> << >>]]
  /\ pc = "idle"
  /\ op = "none"
  /\ call = NoCall
  /\ idx = 0
  /\ last = NoLast
  /\ start_elapsed = 0
  /\ destroyed = FALSE
  /\ ready_seen = {}
  /\ ops = 0
  /\ nstarts = 0
  /\ nextId = 0
  /\ timedOut = FALSE
  /\ written = [s \in Sessions |-> << >>]
  /\ effects = NoEffects
  /\ PageIdle
  /\ ThreadsIdle

\* self._process.poll() is None
Alive(s) == s # None /\ proc[s] = "running"

\* ------------------------------------------------------------------
\* start_persistent_session
\* ------------------------------------------------------------------

\* Mutant: the early return is taken only for an engine that has printed
\* READY.
AlreadyRunning_ready_only == process # None /\ Alive(process) /\ process \in ready_seen

\* "if self._process is not None and self._process.poll() is None: return"
AlreadyRunning == process # None /\ Alive(process)

\* The call returns at once when the engine is running.
start_noop ==
  /\ pc = "idle" /\ ops < MaxOps /\ ~destroyed
  /\ AlreadyRunning
  /\ ops' = ops + 1
  /\ last' = [op |-> "start", kind |-> "noop", id |-> 0, for |-> 0, timeout |-> 0]
  /\ effects' = NoEffects
  /\ UNCHANGED << driverVars, osVars, engineVars, pc, op, call, idx, lifeVars,
                  nstarts, nextId, timedOut, written >>
  /\ UNCHANGED pageVars

\* Mutant: starting a session opens the driver again.
Spawn_reopens ==
  /\ LET s == nstarts + 1 IN
       /\ nstarts' = s
       /\ command_file' = s
       /\ response_file' = s
       /\ handles_open' = TRUE
       /\ temp_scripts' = temp_scripts \o << <<s, "cmd">>, <<s, "rsp">>, <<s, "js">> >>
       /\ exists' = exists \cup {<<s, "cmd">>, <<s, "rsp">>, <<s, "js">>}
       /\ process' = s
       /\ proc' = [proc EXCEPT ![s] = "running"]
  /\ is_closed' = FALSE
  /\ pc' = "start_loop"
  /\ start_elapsed' = 0
  /\ timedOut' = FALSE
  /\ last' = NoLast
  /\ UNCHANGED << platform, signalled, cmdf, rspf, stdout, engineVars,
                  call, idx, destroyed, ready_seen, nextId, written >>

\* Lines 36-176: the two channel files and the script are created and
\* recorded, the engine is spawned and the clock of the READY loop started.
Spawn ==
  /\ LET s == nstarts + 1 IN
       /\ nstarts' = s
       /\ command_file' = s
       /\ response_file' = s
       /\ handles_open' = TRUE
       /\ temp_scripts' = temp_scripts \o << <<s, "cmd">>, <<s, "rsp">>, <<s, "js">> >>
       /\ exists' = exists \cup {<<s, "cmd">>, <<s, "rsp">>, <<s, "js">>}
       /\ process' = s
       /\ proc' = [proc EXCEPT ![s] = "running"]
  /\ pc' = "start_loop"
  /\ start_elapsed' = 0
  /\ timedOut' = FALSE
  /\ last' = NoLast
  /\ UNCHANGED << platform, is_closed, signalled, cmdf, rspf, stdout, engineVars,
                  call, idx, destroyed, ready_seen, nextId, written >>

\* A public call of start_persistent_session on a driver whose engine is not
\* running.
start_spawn ==
  /\ pc = "idle" /\ ops < MaxOps /\ ~destroyed
  /\ ~AlreadyRunning
  /\ Spawn
  /\ ops' = ops + 1
  /\ op' = "start"
  /\ effects' = [NoEffects EXCEPT !.spawned = TRUE]
  /\ UNCHANGED pageVars

StartupError == [op |-> "start", kind |-> "startup_error", id |-> 0, for |-> 0, timeout |-> 0]

\* The pipe is read by start_persistent_session only: once that call has
\* ended, what the pipe holds is never read and is not kept in the state.
Unread(s) == [stdout EXCEPT ![s] = << >>]

\* The caller is inside the READY loop.
Starting == pc \in {"start_loop", "start_read"}

\* Lines 306-351: what exec does on the persistent path once the session
\* runs: --version is run as a subprocess of its own, anything else raises
\* NotImplementedError.
ExecPersistent(args) ==
  IF "version" \in args THEN {"version_exit", "version_timeout"} ELSE {"not_implemented"}

\* How start_persistent_session ends: RuntimeError (lines 184, 199) or a
\* normal return, which inside exec leads on to the rest of exec.
StartEnd(kind) ==
  /\ pc' = "idle"
  /\ op' = "none"
  /\ start_elapsed' = 0
  /\ stdout' = Unread(process)
  /\ IF op = "exec"
       THEN \E k \in (IF kind = "returned" THEN ExecPersistent(effects.args) ELSE {kind}) :
              last' = [StartupError EXCEPT !.op = "exec", !.kind = k]
       ELSE last' = [StartupError EXCEPT !.kind = kind]

\* Lines 179-184, 198-199: the loop condition, then the liveness check.
start_check ==
  /\ pc = "start_loop"
  /\ IF start_elapsed >= StartTimeout \/ ~Alive(process)
       THEN StartEnd("startup_error")
       ELSE /\ pc' = "start_read"
            /\ UNCHANGED << op, last, stdout, start_elapsed >>
  /\ UNCHANGED << driverVars, proc, signalled, exists, cmdf, rspf, platform, engineVars,
                  call, idx, destroyed, ready_seen, historyVars >>
  /\ UNCHANGED pageVars

\* Line 189: readline() has no timeout: while the engine is alive and has
\* printed nothing the call stays inside it and the clock runs on.
start_block ==
  /\ pc = "start_read"
  /\ Len(stdout[process]) = 0
  /\ Alive(process)
  /\ start_elapsed <= StartTimeout
  /\ start_elapsed' = start_elapsed + BlockQuantum
  /\ UNCHANGED << driverVars, osVars, engineVars, pc, op, call, idx, last,
                  destroyed, ready_seen, historyVars >>
  /\ UNCHANGED pageVars

\* The sentinel, and a standard-output line as the sequence of its characters.
Token == << "R", "E", "A", "D", "Y" >>

\* Mutant: only the line that is exactly the sentinel counts.
ContainsReady_exact(line) == line = Token

\* Line 190: "READY" in ready_output.
ContainsReady(line) ==
  \E i \in 1..Len(line) :
    i + Len(Token) - 1 <= Len(line) /\ SubSeq(line, i, i + Len(Token) - 1) = Token

\* Lines 187-192: readline returns the next line of the engine's standard
\* output, or the empty string at end of file. A line containing READY ends
\* the wait, any other line leads back to the loop condition.
start_readline ==
  /\ pc = "start_read"
  /\ \/ /\ Len(stdout[process]) > 0
        /\ IF ContainsReady(Head(stdout[process]))
             THEN /\ StartEnd("returned")
                  /\ ready_seen' = ready_seen \cup {process}
             ELSE /\ pc' = "start_loop"
                  /\ stdout' = [stdout EXCEPT ![process] = Tail(@)]
                  /\ UNCHANGED << op, last, start_elapsed, ready_seen >>
     \/ /\ Len(stdout[process]) = 0
        /\ ~Alive(process)
        /\ pc' = "start_loop"
        /\ UNCHANGED << stdout, op, last, start_elapsed, ready_seen >>
  /\ UNCHANGED << driverVars, proc, signalled, exists, cmdf, rspf, platform, engineVars,
                  call, idx, destroyed, historyVars >>
  /\ UNCHANGED pageVars

\* ------------------------------------------------------------------
\* The bootstrap script, running in the engine process of session s
\* ------------------------------------------------------------------

Response(k, type, data) == [for |-> k, type |-> type, data |-> data]
Partial(r) == [for |-> r.for, type |-> "partial", data |-> "none"]
Garbage(r) == [for |-> r.for, type |-> "garbage", data |-> "none"]

\* The caller is inside the response-wait loop of send_command.
InWaitLoop == pc \in {"send_poll", "send_clear"}

\* The engine cannot have finished command k while less than its minimum
\* processing latency has elapsed since the controller wrote k.
MayAnswer(k) == (InWaitLoop /\ call.id = k) => call.elapsed >= EngineMinLatency

\* What the engine's standard output holds once the script has printed the
\* sentinel: the sentinel line, alone or inside a longer line, possibly after
\* a line of the engine's own that does not hold the token.
BootOutputs ==
  { << Token >>,
    << << "A", "L" >> \o Token >>,
    << << "E", "R", "R" >>, Token >> }

\* Line 55 (console.log('READY')): the engine prints the sentinel, then
\* starts polling.
engine_boot(s) ==
  /\ proc[s] = "running"
  /\ epc[s] = "boot"
  /\ \E out \in BootOutputs :
       stdout' = IF Starting /\ process = s THEN [stdout EXCEPT ![s] = out] ELSE stdout
  /\ epc' = [epc EXCEPT ![s] = "poll"]
  /\ UNCHANGED << platform, driverVars, proc, signalled, exists, cmdf, rspf, ecur, navs, ewr, executed, answers,
                  callerVars, historyVars >>
  /\ UNCHANGED pageVars

\* Lines 60-63: a poll finds the command file present and not empty, and
\* parses its content. (A poll that finds nothing changes nothing.)
engine_read(s) ==
  /\ proc[s] = "running"
  /\ epc[s] = "poll"
  /\ <<s, "cmd">> \in exists
  /\ cmdf[s] # NoCmd
  /\ ecur' = [ecur EXCEPT ![s] = cmdf[s]]
  /\ epc' = [epc EXCEPT ![s] = "read"]
  /\ UNCHANGED << driverVars, osVars, navs, ewr, executed, answers, callerVars, historyVars >>
  /\ UNCHANGED pageVars

\* Mutant: a poll that finds no branch for the action does not schedule the
\* next poll.
Dispatch_stops_on_unknown(action) ==
  CASE action \in SyncActions -> "handle"
    [] action = "close"       -> "exiting"
    [] action = "navigate"    -> "poll"
    [] OTHER                  -> "stopped"

\* Mutant: the close action is answered like a synchronous action.
Dispatch_answers_close(action) ==
  CASE action \in SyncActions \cup {"close"} -> "handle"
    [] OTHER                                 -> "poll"

\* Where the dispatch on the action goes after the command file is cleared.
Dispatch(action) ==
  CASE action \in SyncActions -> "handle"
    [] action = "close"       -> "exiting"
    [] OTHER                  -> "poll"

\* Mutant: the engine dispatches the command without clearing the command
\* file.
engine_clear_keeps_command(s) ==
  /\ proc[s] = "running"
  /\ epc[s] = "read"
  /\ executed' = [executed EXCEPT ![s] = Append(@, ecur[s].id)]
  /\ answers' = [answers EXCEPT ![s].owed =
                   IF ecur[s].action \in Answerable THEN @ \cup {ecur[s].id} ELSE @]
  /\ navs' = [navs EXCEPT ![s] =
                IF ecur[s].action = "navigate"
                  THEN @ \cup {[id |-> ecur[s].id, stage |-> "loading"]}
                  ELSE @]
  /\ epc' = [epc EXCEPT ![s] = Dispatch(ecur[s].action)]
  /\ UNCHANGED << driverVars, osVars, ecur, ewr, callerVars, historyVars >>
  /\ UNCHANGED pageVars

\* Lines 67-130: the command file is cleared, then the action is dispatched:
\* navigate starts a page load and returns, close calls phantom.exit(), the
\* four synchronous actions run their handler, anything else does nothing.
engine_clear(s) ==
  /\ proc[s] = "running"
  /\ epc[s] = "read"
  /\ cmdf' = [cmdf EXCEPT ![s] = NoCmd]
  /\ exists' = exists \cup {<<s, "cmd">>}
  /\ executed' = [executed EXCEPT ![s] = Append(@, ecur[s].id)]
  /\ answers' = [answers EXCEPT ![s].owed =
                   IF ecur[s].action \in Answerable THEN @ \cup {ecur[s].id} ELSE @]
  /\ navs' = [navs EXCEPT ![s] =
                IF ecur[s].action = "navigate"
                  THEN @ \cup {[id |-> ecur[s].id, stage |-> "loading"]}
                  ELSE @]
  /\ epc' = [epc EXCEPT ![s] = Dispatch(ecur[s].action)]
  /\ UNCHANGED << platform, driverVars, proc, signalled, rspf, stdout, ecur, ewr, callerVars, historyVars >>
  /\ UNCHANGED pageVars

\* fs.write(responseFile, response, 'w'): the file is created if missing and
\* its content replaced, either in one write or in two, the first of which
\* leaves an incomplete document in the file.
WriteResponse(s, r, whole) ==
  /\ exists' = exists \cup {<<s, "rsp">>}
  /\ answers' = [answers EXCEPT ![s].given = Append(@, r.for)]
  /\ IF whole
       THEN /\ rspf' = [rspf EXCEPT ![s] = r]
            /\ ewr' = [ewr EXCEPT ![s] = Empty]
            /\ epc' = [epc EXCEPT ![s] = "poll"]
       ELSE /\ rspf' = [rspf EXCEPT ![s] = Partial(r)]
            /\ ewr' = [ewr EXCEPT ![s] = r]
            /\ epc' = [epc EXCEPT ![s] = "write"]

\* What a handler's answer is: an error when the handler threw (line 133),
\* else a result; JSON.stringify drops a data field that is undefined, which
\* only evaluate can produce.
Answers(c) ==
  {Response(c.id, "error", "message"), Response(c.id, "result", "value")}
    \cup (IF c.action = "evaluate" THEN {Response(c.id, "result", "absent")} ELSE {})

\* Lines 85-127, 133-136: a synchronous handler writes its response.
engine_respond(s) ==
  /\ proc[s] = "running"
  /\ epc[s] = "handle"
  /\ MayAnswer(ecur[s].id)
  /\ \E r \in Answers(ecur[s]), whole \in BOOLEAN : WriteResponse(s, r, whole)
  /\ UNCHANGED << platform, driverVars, proc, signalled, cmdf, stdout, ecur, navs, executed,
                  callerVars, historyVars >>
  /\ UNCHANGED pageVars

\* The second write of a response written in two: the document is complete
\* unless the file was truncated in between, and then what the file holds
\* does not parse.
engine_finish_write(s) ==
  /\ proc[s] = "running"
  /\ epc[s] = "write"
  /\ exists' = exists \cup {<<s, "rsp">>}
  /\ rspf' = [rspf EXCEPT ![s] = IF @ = Partial(ewr[s]) /\ <<s, "rsp">> \in exists
                                   THEN ewr[s] ELSE Garbage(ewr[s])]
  /\ ewr' = [ewr EXCEPT ![s] = Empty]
  /\ epc' = [epc EXCEPT ![s] = "poll"]
  /\ UNCHANGED << platform, driverVars, proc, signalled, cmdf, stdout, ecur, navs, executed, answers,
                  callerVars, historyVars >>
  /\ UNCHANGED pageVars

\* Lines 71-84: the callback of page.open. On success the settle timer is
\* armed; on failure the error response is written.
engine_nav_loaded(s) ==
  /\ proc[s] = "running"
  /\ epc[s] = "poll"
  /\ \E n \in navs[s], success \in BOOLEAN, whole \in BOOLEAN :
       /\ n.stage = "loading"
       /\ IF success
            THEN /\ navs' = [navs EXCEPT ![s] = (@ \ {n}) \cup {[n EXCEPT !.stage = "settling"]}]
                 /\ UNCHANGED << exists, rspf, ewr, epc, answers >>
            ELSE /\ MayAnswer(n.id)
                 /\ navs' = [navs EXCEPT ![s] = @ \ {n}]
                 /\ WriteResponse(s, Response(n.id, "error", "message"), whole)
  /\ UNCHANGED << platform, driverVars, proc, signalled, cmdf, stdout, ecur, executed,
                  callerVars, historyVars >>
  /\ UNCHANGED pageVars

\* Lines 73-79: the settle timer fires and the page's markup is written.
engine_nav_settled(s) ==
  /\ proc[s] = "running"
  /\ epc[s] = "poll"
  /\ \E n \in navs[s], whole \in BOOLEAN :
       /\ n.stage = "settling"
       /\ MayAnswer(n.id)
       /\ navs' = [navs EXCEPT ![s] = @ \ {n}]
       /\ WriteResponse(s, Response(n.id, "result", "value"), whole)
  /\ UNCHANGED << platform, driverVars, proc, signalled, cmdf, stdout, ecur, executed,
                  callerVars, historyVars >>
  /\ UNCHANGED pageVars

\* A process that has ended has no script state left.
Ended(s) ==
  /\ epc' = [epc EXCEPT ![s] = "boot"]
  /\ ecur' = [ecur EXCEPT ![s] = NoCmd]
  /\ navs' = [navs EXCEPT ![s] = {}]
  /\ ewr' = [ewr EXCEPT ![s] = Empty]

\* Line 129: phantom.exit() ends the engine process.
engine_exit(s) ==
  /\ proc[s] = "running"
  /\ epc[s] = "exiting"
  /\ proc' = [proc EXCEPT ![s] = "exited"]
  /\ Ended(s)
  /\ UNCHANGED << platform, driverVars, signalled, exists, cmdf, rspf, stdout, executed, answers,
                  callerVars, historyVars >>
  /\ UNCHANGED pageVars

\* The engine process ends on its own or on the SIGTERM it was sent.
engine_dies(s) ==
  /\ proc[s] = "running"
  /\ epc[s] # "exiting"
  /\ proc' = [proc EXCEPT ![s] = "exited"]
  /\ Ended(s)
  /\ UNCHANGED << platform, driverVars, signalled, exists, cmdf, rspf, stdout, executed, answers,
                  callerVars, historyVars >>
  /\ UNCHANGED pageVars

\* ------------------------------------------------------------------
\* send_command
\* ------------------------------------------------------------------

\* Mutant: send_command checks the process only, not the closed flag.
SendGuard_ignores_closed ==
  IF process = None \/ ~Alive(process) THEN "session_error" ELSE "ok"

\* Lines 213-217: the two checks made before anything is written.
SendGuard ==
  IF process = None \/ ~Alive(process) THEN "session_error"
  ELSE IF is_closed THEN "closed_error"
  ELSE "ok"

\* Lines 219-229: the command is written over whatever the command file
\* holds, and the wait starts.
WriteCommand(action, timeout) ==
  /\ nextId' = nextId + 1
  /\ cmdf' = [cmdf EXCEPT ![command_file] = [id |-> nextId + 1, action |-> action]]
  /\ written' = [written EXCEPT ![command_file] = Append(@, nextId + 1)]
  /\ exists' = exists \cup {<<command_file, "cmd">>}
  /\ call' = [id |-> nextId + 1, action |-> action, timeout |-> timeout,
              elapsed |-> 0, content |-> Empty]
  /\ pc' = "send_poll"

\* A public call of send_command (navigate, evaluate, click, fill and
\* take_screenshot are this call with their action and parameters).
send_command ==
  /\ pc = "idle" /\ ops < MaxOps /\ ~destroyed
  /\ ops' = ops + 1
  /\ \E action \in Actions, timeout \in Timeouts :
       IF SendGuard = "ok"
         THEN /\ WriteCommand(action, timeout)
              /\ op' = "send"
              /\ last' = NoLast
              /\ effects' = [NoEffects EXCEPT !.wrote = TRUE]
         ELSE /\ last' = [op |-> "send", kind |-> SendGuard, id |-> 0, for |-> 0, timeout |-> 0]
              /\ effects' = NoEffects
              /\ UNCHANGED << nextId, cmdf, written, exists, call, pc, op >>
  /\ UNCHANGED << driverVars, proc, signalled, rspf, stdout, platform, engineVars,
                  idx, lifeVars, nstarts, timedOut >>
  /\ UNCHANGED pageVars

\* Mutant: close() catches TimeoutError only.
CloseCatches_timeout_only(kind) == kind = "timeout"

\* Line 379: the bare except around close()'s send_command catches whatever
\* it raises.
CloseCatches(kind) == TRUE

\* How a send_command ends: back to the caller, or, inside close(), on to the
\* cleanup when it returned and to terminate() when it raised.
SendEnd(kind, for) ==
  /\ call' = NoCall
  /\ timedOut' = (timedOut \/ kind = "timeout")
  /\ IF op = "close" /\ (kind = "returned" \/ CloseCatches(kind))
       THEN /\ pc' = IF kind = "returned" THEN "close_unlink" ELSE "close_terminate"
            /\ idx' = 1
            /\ last' = [op |-> "close_send", kind |-> kind, id |-> call.id, for |-> for,
                      timeout |-> call.timeout]
            /\ UNCHANGED op
       ELSE /\ pc' = "idle"
            /\ op' = "none"
            /\ last' = [op |-> op, kind |-> kind, id |-> call.id, for |-> for,
                      timeout |-> call.timeout]
            /\ UNCHANGED idx

\* Line 230: the loop condition.
WithinTimeout == call.elapsed < call.timeout

\* Lines 230-236, 252-255: one pass of the wait loop up to the read of the
\* response file. Past the timeout TimeoutError is raised; a missing file
\* raises out of the call; an empty file is slept on.
send_poll ==
  /\ pc = "send_poll"
  /\ IF ~WithinTimeout
       THEN /\ SendEnd("timeout", 0)
            /\ UNCHANGED effects
       ELSE IF <<response_file, "rsp">> \notin exists
       THEN /\ SendEnd("os_error", 0)
            /\ UNCHANGED effects
       ELSE /\ effects' = [effects EXCEPT !.read = TRUE]
            /\ IF rspf[response_file] # Empty
                 THEN /\ call' = [call EXCEPT !.content = rspf[response_file]]
                      /\ pc' = "send_clear"
                 ELSE /\ call' = [call EXCEPT !.elapsed = @ + PollSleep]
                      /\ pc' = "send_poll"
            /\ UNCHANGED << op, idx, last, timedOut >>
  /\ UNCHANGED << driverVars, osVars, engineVars, lifeVars, ops, nstarts, nextId, written >>
  /\ UNCHANGED pageVars

\* Mutant: an engine error is treated like a response that is not ready, and
\* the wait goes on.
Decode_retries_error(content) ==
  CASE content.type \in {"partial", "garbage", "error"}       -> "not_json"
    [] content.type = "result" /\ content.data = "absent"     -> "key_error"
    [] OTHER                                                  -> "returned"

\* Mutant: a response that is not the answer to the call's own command is
\* treated like a response that is not ready.
Decode_checks_id(content) ==
  CASE content.type \in {"partial", "garbage"} \/ content.for # call.id -> "not_json"
    [] content.type = "error"                                 -> "engine_error"
    [] content.type = "result" /\ content.data = "absent"     -> "key_error"
    [] OTHER                                                  -> "returned"

\* Lines 241-250: what the content read from the response file decodes to.
Decode(content) ==
  CASE content.type \in {"partial", "garbage"}                -> "not_json"
    [] content.type = "error"                                 -> "engine_error"
    [] content.type = "result" /\ content.data = "absent"     -> "key_error"
    [] OTHER                                                  -> "returned"

\* the content read is the first part of the response to the call's own
\* command, read while the engine was still writing it
OwnPartial(content) == content.type = "partial" /\ content.for = call.id

\* Mutant: the controller decodes the response without clearing the response
\* file.
send_clear_keeps_response ==
  /\ pc = "send_clear"
  /\ IF Decode(call.content) = "not_json"
       THEN /\ call' = [call EXCEPT !.elapsed = @ + PollSleep, !.content = Empty]
            /\ pc' = "send_poll"
            /\ UNCHANGED << op, idx, last, timedOut >>
       ELSE SendEnd(Decode(call.content), call.content.for)
  /\ effects' = [effects EXCEPT !.unparsed = @ \/ OwnPartial(call.content)]
  /\ UNCHANGED << driverVars, osVars, engineVars, lifeVars, ops, nstarts, nextId, written >>
  /\ UNCHANGED pageVars

\* Lines 237-250: the response file is cleared, then the content is decoded:
\* a result is returned, an error raised, and content that is not JSON is
\* slept on.
send_clear ==
  /\ pc = "send_clear"
  /\ rspf' = [rspf EXCEPT ![response_file] = Empty]
  /\ exists' = exists \cup {<<response_file, "rsp">>}
  /\ IF Decode(call.content) = "not_json"
       THEN /\ call' = [call EXCEPT !.elapsed = @ + PollSleep, !.content = Empty]
            /\ pc' = "send_poll"
            /\ UNCHANGED << op, idx, last, timedOut >>
       ELSE SendEnd(Decode(call.content), call.content.for)
  /\ effects' = [effects EXCEPT !.unparsed = @ \/ OwnPartial(call.content)]
  /\ UNCHANGED << driverVars, proc, signalled, cmdf, stdout, platform, engineVars,
                  lifeVars, ops, nstarts, nextId, written >>
  /\ UNCHANGED pageVars

\* ------------------------------------------------------------------
\* exec
\* ------------------------------------------------------------------

\* The argument lists of exec, by what they hold: a script path ending in
\* .js, --version, any other argument.
ExecArgs == { {"js"}, {"js", "other"}, {"js", "version"}, {"version"}, {"other"} }

\* Driver.exec, the one-shot run of the engine as a subprocess that is waited
\* for: it ends with exit code zero, with another exit code, or in
\* subprocess.TimeoutExpired.
DriverExec == {"script_exit_zero", "script_exit_nonzero", "script_timeout"}

\* Mutant: --version is looked for before the script path.
ExecRoute_version_first(args) ==
  IF "version" \in args THEN "persistent"
  ELSE IF "js" \in args THEN "one_shot" ELSE "persistent"

\* Lines 275-296: an argument ending in .js sends the call to Driver.exec,
\* anything else to the persistent path.
ExecRoute(args) == IF "js" \in args THEN "one_shot" ELSE "persistent"

\* Lines 257-351: exec. On the persistent path the session is started first
\* when no engine is running (lines 298-299).
exec ==
  /\ pc = "idle" /\ ops < MaxOps /\ ~destroyed
  /\ ops' = ops + 1
  /\ \E args \in ExecArgs :
       IF ExecRoute(args) = "persistent" /\ ~AlreadyRunning
         THEN /\ Spawn
              /\ op' = "exec"
              /\ effects' = [NoEffects EXCEPT !.exec = TRUE, !.args = args, !.spawned = TRUE]
         ELSE /\ effects' = [NoEffects EXCEPT !.exec = TRUE, !.args = args]
              /\ \E k \in (IF ExecRoute(args) = "one_shot" THEN DriverExec
                                                         ELSE ExecPersistent(args)) :
                   last' = [op |-> "exec", kind |-> k, id |-> 0, for |-> 0, timeout |-> 0]
              /\ UNCHANGED << driverVars, osVars, engineVars, pc, op, call, idx, lifeVars,
                              nstarts, nextId, timedOut, written >>
  /\ UNCHANGED pageVars

\* ------------------------------------------------------------------
\* close
\* ------------------------------------------------------------------

\* Mutant: close() sends the close command without looking at the process.
CloseSends_unguarded == TRUE

\* Line 375: "if self._process and self._process.poll() is None".
CloseSends == process # None /\ Alive(process)

\* Lines 375-378: with a running process the close command is sent with a
\* 5 s timeout; the checks of send_command apply to it too.
CloseBody ==
  /\ op' = "close"
  /\ last' = NoLast
  /\ IF CloseSends
       THEN IF SendGuard = "ok"
              THEN /\ WriteCommand("close", CloseTimeout)
                   /\ effects' = [NoEffects EXCEPT !.wrote = TRUE, !.owned = TRUE]
                   /\ UNCHANGED idx
              ELSE /\ pc' = "close_terminate"
                   /\ effects' = [NoEffects EXCEPT !.reclose = is_closed /\ process = None,
                                                   !.owned = TRUE]
                   /\ UNCHANGED << nextId, cmdf, written, exists, call, idx >>
       ELSE /\ pc' = "close_unlink"
            /\ idx' = 1
            /\ effects' = [NoEffects EXCEPT !.reclose = is_closed /\ process = None]
            /\ UNCHANGED << nextId, cmdf, written, exists, call >>
  /\ UNCHANGED << driverVars, proc, signalled, rspf, stdout, platform, engineVars,
                  start_elapsed, ready_seen, nstarts, timedOut >>

\* A public call of close().
close ==
  /\ pc = "idle" /\ ops < MaxOps /\ ~destroyed
  /\ ops' = ops + 1
  /\ CloseBody
  /\ UNCHANGED destroyed
  /\ UNCHANGED pageVars

\* Mutant: the finalizer closes whenever the driver holds a process handle.
FinalizerCloses_ignores_flag == process # None

\* Line 411: "if not self._is_closed and self._process".
FinalizerCloses == ~is_closed /\ process # None

\* Lines 409-412: __del__, run once when the driver object is destroyed; no
\* call can follow it.
finalizer ==
  /\ pc = "idle" /\ ops < MaxOps /\ ~destroyed
  /\ ops' = ops + 1
  /\ destroyed' = TRUE
  /\ IF FinalizerCloses
       THEN CloseBody
       ELSE /\ last' = [op |-> "del", kind |-> "skipped", id |-> 0, for |-> 0, timeout |-> 0]
            /\ effects' = [NoEffects EXCEPT !.owned = AlreadyRunning]
            /\ UNCHANGED << driverVars, osVars, engineVars, pc, op, call, idx,
                            start_elapsed, ready_seen, nstarts, nextId, timedOut, written >>
  /\ UNCHANGED pageVars

\* Line 381: self._process.terminate() signals the process if it is still
\* running; on None it raises AttributeError out of close().
close_terminate ==
  /\ pc = "close_terminate"
  /\ IF process = None
       THEN /\ pc' = "idle"
            /\ op' = "none"
            /\ last' = [op |-> "close", kind |-> "attribute_error", id |-> 0, for |-> 0, timeout |-> 0]
            /\ UNCHANGED << signalled, effects >>
       ELSE /\ pc' = "close_wait"
            /\ IF Alive(process)
                 THEN /\ signalled' = [signalled EXCEPT ![process] = "term"]
                      /\ effects' = [effects EXCEPT !.signal = TRUE]
                 ELSE UNCHANGED << signalled, effects >>
            /\ UNCHANGED << op, last >>
  /\ UNCHANGED << driverVars, proc, exists, cmdf, rspf, stdout, platform, engineVars,
                  call, idx, lifeVars, ops, nstarts, nextId, timedOut, written >>
  /\ UNCHANGED pageVars

\* Lines 382-385: wait(timeout=5.0) returns once the process has exited; if
\* it has not, TimeoutExpired is caught and the process is killed.
close_wait ==
  /\ pc = "close_wait"
  /\ IF Alive(process)
       THEN /\ signalled' = [signalled EXCEPT ![process] = "kill"]
            /\ proc' = [proc EXCEPT ![process] = "killed"]
            /\ Ended(process)
       ELSE UNCHANGED << signalled, proc, epc, ecur, navs, ewr >>
  /\ pc' = "close_unlink"
  /\ idx' = 1
  /\ UNCHANGED << driverVars, exists, cmdf, rspf, stdout, platform, executed, answers,
                  op, call, last, lifeVars, historyVars >>
  /\ UNCHANGED pageVars

\* os.unlink raises PermissionError, an OSError, for a file this process
\* still holds open where the platform forbids deleting open files; the two
\* NamedTemporaryFile objects stay open until lines 398-407.
UnlinkFails(f) ==
  platform = "windows" /\ handles_open /\ f[1] = command_file /\ f[2] \in {"cmd", "rsp"}

\* Lines 388-393: the next recorded file is unlinked if it exists; an
\* OSError from unlink is swallowed and the file stays.
close_unlink ==
  /\ pc = "close_unlink"
  /\ idx <= Len(temp_scripts)
  /\ LET f == temp_scripts[idx] IN
       IF f \in exists /\ ~UnlinkFails(f)
         THEN /\ exists' = exists \ {f}
              /\ cmdf' = IF f[2] = "cmd" THEN [cmdf EXCEPT ![f[1]] = NoCmd] ELSE cmdf
              /\ rspf' = IF f[2] = "rsp" THEN [rspf EXCEPT ![f[1]] = Empty] ELSE rspf
              /\ UNCHANGED effects
         ELSE /\ effects' = [effects EXCEPT !.unlink_failed = @ \/ f \in exists]
              /\ UNCHANGED << exists, cmdf, rspf >>
  /\ idx' = idx + 1
  /\ UNCHANGED << driverVars, proc, signalled, stdout, platform, engineVars,
                  pc, op, call, last, lifeVars, ops, nstarts, nextId, timedOut, written >>
  /\ UNCHANGED pageVars

\* Lines 395-407: the flag is set, the process handle dropped and the two
\* file objects closed.
close_finish ==
  /\ pc = "close_unlink"
  /\ idx > Len(temp_scripts)
  /\ is_closed' = TRUE
  /\ process' = None
  /\ handles_open' = FALSE
  /\ pc' = "idle"
  /\ op' = "none"
  /\ idx' = 0
  /\ last' = [op |-> "close", kind |-> "returned", id |-> 0, for |-> 0, timeout |-> 0]
  /\ UNCHANGED << temp_scripts, command_file, response_file, osVars, engineVars,
                  call, lifeVars, historyVars >>
  /\ UNCHANGED pageVars

\* ------------------------------------------------------------------
\* Exceptions
\* ------------------------------------------------------------------

\* The failures the driver and the page layer raise, by kind.
FailureKinds ==
  [ startup_error  |-> "startup",
    session_error  |-> "closed_session",
    closed_error   |-> "closed_session",
    engine_error   |-> "protocol_error",
    timeout        |-> "command_timeout",
    pdf_failed     |-> "pdf_failure" ]

\* The class of the exception each failure is raised as: RuntimeError at
\* lines 184, 199, 214, 217 and 244 of the driver, the builtin TimeoutError at
\* line 255, Error at line 219 of browser.py. launch() and the Page methods
\* call the driver outside any try statement, so the driver's exceptions
\* reach their callers as they are.
ExceptionType ==
  [ startup_error  |-> "RuntimeError",
    session_error  |-> "RuntimeError",
    closed_error   |-> "RuntimeError",
    engine_error   |-> "RuntimeError",
    timeout        |-> "builtins.TimeoutError",
    pdf_failed     |-> "phasma.browser.Error" ]

\* ------------------------------------------------------------------

Engine ==
  \E s \in Sessions :
    \/ engine_boot(s)
    \/ engine_read(s)
    \/ engine_clear(s)
    \/ engine_respond(s)
    \/ engine_finish_write(s)
    \/ engine_nav_loaded(s)
    \/ engine_nav_settled(s)
    \/ engine_exit(s)
    \/ engine_dies(s)

Caller ==
  \/ start_noop
  \/ start_spawn
  \/ start_check
  \/ start_block
  \/ start_readline
  \/ exec
  \/ send_command
  \/ send_poll
  \/ send_clear
  \/ close
  \/ close_terminate
  \/ close_wait
  \/ close_unlink
  \/ close_finish
  \/ finalizer

Next == Caller \/ Engine

Spec == Init /\ [][Next]_vars

\* Lines 138-143: a running engine goes on polling, and what a poll has
\* begun (parse, clear, handler, write, phantom.exit()) is carried through.
EngineFair ==
  \A s \in Sessions :
    /\ WF_vars(engine_boot(s))
    /\ WF_vars(engine_read(s))
    /\ WF_vars(engine_clear(s))
    /\ WF_vars(engine_respond(s))
    /\ WF_vars(engine_finish_write(s))
    /\ WF_vars(engine_exit(s))

FairSpec == Spec /\ EngineFair

\* Lines 41-46: the response file is an ordinary file in the temporary
\* directory (NamedTemporaryFile with delete=False), known to the driver by
\* its name only; whatever else works on that directory can remove it while
\* the session runs, where the platform lets a file that is held open be
\* deleted. The engine's next fs.write creates it again.
response_file_removed(s) ==
  /\ proc[s] = "running"
  /\ <<s, "rsp">> \in exists
  /\ ~(platform = "windows" /\ handles_open /\ s = command_file)
  /\ exists' = exists \ {<<s, "rsp">>}
  /\ rspf' = [rspf EXCEPT ![s] = Empty]
  /\ UNCHANGED << platform, driverVars, proc, signalled, cmdf, stdout, engineVars,
                  callerVars, historyVars >>
  /\ UNCHANGED pageVars

RemovalNext == Next \/ \E s \in Sessions : response_file_removed(s)

\* The driver and its engines, with the response file open to removal.
RemovalSpec == Init /\ [][RemovalNext]_vars

\* ==================================================================
\* The page layer: browser.py over the commands of one started session
\* ==================================================================

\* ---- the response document's data, from the engine to the caller ----

DigitChars == << "0", "1", "2", "3", "4", "5", "6", "7", "8", "9" >>

RECURSIVE Digits(_)
Digits(n) ==
  IF n < 10 THEN << DigitChars[n + 1] >>
  ELSE Digits(n \div 10) \o << DigitChars[(n % 10) + 1] >>

\* JSON.stringify of the data value; a key whose value is undefined is
\* left out of the document
Stringify(js) ==
  CASE js.t = "undefined" -> << >>
    [] js.t = "null" -> << "n", "u", "l", "l" >>
    [] js.t = "boolean" -> IF js.v[1] THEN << "t", "r", "u", "e" >>
                           ELSE << "f", "a", "l", "s", "e" >>
    [] js.t = "number" -> Digits(js.v[1])
    [] js.t = "string" -> << "\"" >> \o js.v \o << "\"" >>

\* fs.write stores text as UTF-8: one byte per ASCII character, two bytes
\* for "e_acute"
Utf8Bytes(c) == IF c = "e_acute" THEN << "xC3", "xA9" >> ELSE << c >>

RECURSIVE Utf8Encode(_)
Utf8Encode(text) ==
  IF text = << >> THEN << >>
  ELSE Utf8Bytes(Head(text)) \o Utf8Encode(Tail(text))

RECURSIVE Utf8Decode(_)
Utf8Decode(bytes) ==
  IF bytes = << >> THEN << >>
  ELSE IF Len(bytes) >= 2 /\ bytes[1] = "xC3" /\ bytes[2] = "xA9"
       THEN << "e_acute" >> \o Utf8Decode(Tail(Tail(bytes)))
       ELSE << bytes[1] >> \o Utf8Decode(Tail(bytes))

\* cp1252 gives every byte a character of its own
Cp1252Decode(bytes) ==
  [i \in 1..Len(bytes) |->
     CASE bytes[i] = "xC3" -> "A_tilde"
       [] bytes[i] = "xA9" -> "copyright"
       [] OTHER -> bytes[i]]

\* open(self._response_file.name, 'r').read(): text mode with no encoding
\* argument decodes with the platform's preferred encoding
ReadText(bytes) ==
  IF platform = "windows" THEN Cp1252Decode(bytes) ELSE Utf8Decode(bytes)

IsDigits(text) ==
  text # << >> /\ \A i \in 1..Len(text) : \E d \in 1..10 : DigitChars[d] = text[i]

RECURSIVE Number(_)
Number(text) ==
  IF text = << >> THEN 0
  ELSE 10 * Number(SubSeq(text, 1, Len(text) - 1))
       + ((CHOOSE d \in 1..10 : DigitChars[d] = text[Len(text)]) - 1)

\* json.loads of the data value
Loads(text) ==
  CASE text = << "n", "u", "l", "l" >> -> PyNone
    [] text = << "t", "r", "u", "e" >> -> PyBool(TRUE)
    [] text = << "f", "a", "l", "s", "e" >> -> PyBool(FALSE)
    [] IsDigits(text) -> PyInt(Number(text))
    [] OTHER -> PyStr(SubSeq(text, 2, Len(text) - 1))

\* Python's truth value of a returned result
Truthy(py) ==
  CASE py.t = "None" -> FALSE
    [] py.t = "bool" -> py.v[1]
    [] py.t = "int" -> py.v[1] # 0
    [] OTHER -> py.v # << >>

\* ---- the engine's handlers ----

\* what page.evaluate's document.querySelector can find in the document
Elements(d) ==
  IF d.url = "form"
  THEN {"#name", "button"} \cup (IF d.late THEN {"#late"} ELSE {})
  ELSE {}

\* page.content
Content(d) == Str(<< "<", d.url, ">" >>)

FreshPage(url) == [url |-> url, field |-> << >>, shown |-> << >>, late |-> FALSE]

\* textContent and innerHTML of the elements of the form document: the
\* input is empty, the button and the inserted element hold a text
TextOf(sel) ==
  CASE sel = "button" -> << "G", "o" >>
    [] sel = "#late" -> << "L" >>
    [] OTHER -> << >>

\* what an expression evaluated with the element as this reads from it:
\* the input and the button have a value, the inserted element has none;
\* only the button has a title attribute, and getAttribute gives null for
\* an attribute that is not there
Property(d, sel, expr) ==
  CASE expr = "value" /\ sel = "#name" -> Str(d.field)
    [] expr = "value" /\ sel = "button" -> Str(<< >>)
    [] expr = "title" /\ sel = "button" -> Str(<< "T" >>)
    [] expr = "title" -> Null
    [] OTHER -> Undefined

\* page.evaluate(function(code) { return eval(code); }, expression)
EvalExpr(d, c) ==
  CASE c.expr = "sum" -> Num(4)
    [] c.expr = "field" -> IF "#name" \in Elements(d) THEN Str(d.field) ELSE Null
    [] c.expr = "result" -> IF d.url = "form" THEN Str(d.shown) ELSE Null
    [] c.expr = "exists" -> Bool(c.sel \in Elements(d))
    [] c.expr = "location" -> Str(<< d.url >>)
    [] c.expr \in {"textContent", "innerHTML"} ->
         IF c.sel \in Elements(d) THEN Str(TextOf(c.sel)) ELSE Null
    [] c.expr \in SelectorExpressions ->
         IF c.sel \in Elements(d) THEN Property(d, c.sel, c.expr) ELSE Null
    [] OTHER -> Undefined

Handler_stateless(d, c) ==
  [value |-> IF c.action \in {"click", "fill"} THEN Bool(c.sel \in Elements(d))
             ELSE EvalExpr(d, c),
   page |-> d]

\* the evaluate, click and fill branches of processCommands: the value
\* sent back and the page they leave
Handler(d, c) ==
  CASE c.action = "click" ->
         IF c.sel \in Elements(d)
         THEN [value |-> Bool(TRUE),
               page |-> IF c.sel = "button" THEN [d EXCEPT !.shown = d.field] ELSE d]
         ELSE [value |-> Bool(FALSE), page |-> d]
    [] c.action = "fill" ->
         IF c.sel \in Elements(d)
         THEN [value |-> Bool(TRUE),
               page |-> IF c.sel = "#name" THEN [d EXCEPT !.field = c.val] ELSE d]
         ELSE [value |-> Bool(FALSE), page |-> d]
    [] OTHER -> [value |-> EvalExpr(d, c), page |-> d]

\* sendResponse(id, 'result', data) and sendResponse(id, 'error', message)
Result(k, js) == [for |-> k, type |-> "result", data |-> Utf8Encode(Stringify(js)), js |-> js]
ErrorDoc(k) == [for |-> k, type |-> "error", data |-> << >>, js |-> Undefined]

\* The engine answers command k no sooner than EngineMinLatency after
\* the call that waits for it began to wait.
PMayAnswer(k) == (ppc # "idle" /\ pcall.cmd.id = k) => pcall.elapsed >= EngineMinLatency

\* processCommands: the command file is read and emptied; page.open starts
\* a navigation, every other command goes to its handler
pe_take ==
  /\ peng.pc = "poll"
  /\ pcmdf # NoPCmd
  /\ pcmdf' = NoPCmd
  /\ IF pcmdf.action = "navigate"
     THEN /\ pnavs' = pnavs \cup {[id |-> pcmdf.id, url |-> pcmdf.url, stage |-> "loading"]}
          /\ UNCHANGED peng
     ELSE /\ peng' = [pc |-> "handle", cur |-> pcmdf]
          /\ UNCHANGED pnavs
  /\ UNCHANGED << page, prspf, ppc, pcall, pout, page_url, pops, phandled, pexpect >>
  /\ UNCHANGED baseVars

\* The document of the last navigate that succeeded and what the fill and
\* click commands executed on it since have set, as their parameters say.
Expect(c) ==
  CASE c.action = "fill" /\ c.sel = "#name" /\ pexpect.url = "form" ->
         [pexpect EXCEPT !.field = c.val]
    [] c.action = "click" /\ c.sel = "button" /\ pexpect.url = "form" ->
         [pexpect EXCEPT !.shown = pexpect.field]
    [] OTHER -> pexpect

\* the handler runs on the page and its result is written
pe_handle ==
  /\ peng.pc = "handle"
  /\ PMayAnswer(peng.cur.id)
  /\ LET h == Handler(page, peng.cur) IN
       /\ page' = h.page
       /\ prspf' = Result(peng.cur.id, h.value)
  /\ phandled' = [phandled EXCEPT ![peng.cur.id] =
                    IF peng.cur.sel \in Elements(page) THEN "match" ELSE "nomatch"]
  /\ peng' = [pc |-> "poll", cur |-> NoPCmd]
  /\ pexpect' = Expect(peng.cur)
  /\ UNCHANGED << pcmdf, pnavs, ppc, pcall, pout, page_url, pops >>
  /\ UNCHANGED baseVars

\* page.open's callback: 'success' with the new document, anything else
\* is answered with an error
pe_nav_loaded ==
  /\ peng.pc = "poll"
  /\ \E n \in pnavs :
       /\ n.stage = "loading"
       /\ IF n.url = "bad"
          THEN /\ PMayAnswer(n.id)
               /\ prspf' = ErrorDoc(n.id)
               /\ pnavs' = pnavs \ {n}
               /\ page' = BlankPage
               /\ pexpect' = [pexpect EXCEPT !.known = FALSE]
          ELSE /\ page' = FreshPage(n.url)
               /\ pnavs' = (pnavs \ {n}) \cup {[n EXCEPT !.stage = "settling"]}
               /\ pexpect' = [known |-> TRUE, url |-> n.url, field |-> << >>, shown |-> << >>]
               /\ UNCHANGED prspf
  /\ UNCHANGED << pcmdf, peng, ppc, pcall, pout, page_url, pops, phandled >>
  /\ UNCHANGED baseVars

\* the setTimeout of the navigate branch: page.content is sent back
pe_nav_settled ==
  /\ peng.pc = "poll"
  /\ \E n \in pnavs :
       /\ n.stage = "settling"
       /\ PMayAnswer(n.id)
       /\ prspf' = Result(n.id, Content(page))
       /\ pnavs' = pnavs \ {n}
  /\ UNCHANGED << page, pcmdf, peng, ppc, pcall, pout, page_url, pops, phandled, pexpect >>
  /\ UNCHANGED baseVars

\* a script of the form document inserts the #late element
pe_timer ==
  /\ peng.pc = "poll"
  /\ page.url = "form"
  /\ ~page.late
  /\ page' = [page EXCEPT !.late = TRUE]
  /\ UNCHANGED << pcmdf, prspf, peng, pnavs, ppc, pcall, pout, page_url, pops, phandled, pexpect >>
  /\ UNCHANGED baseVars

\* ---- the Page methods ----

Command(k, action, url, sel, val, expr) ==
  [id |-> k, action |-> action, url |-> url, sel |-> sel, val |-> val, expr |-> expr]

\* send_command up to its wait loop, on behalf of Page method `method`
PageSend(p, method, c, timeout, wtimeout) ==
  /\ ppc = "idle"
  /\ pdf.pc = "idle"
  /\ pops < MaxPageOps
  /\ pops' = pops + 1
  /\ pcmdf' = c
  /\ pcall' = [page |-> p, method |-> method, cmd |-> c, timeout |-> timeout,
               wtimeout |-> wtimeout, elapsed |-> 0, content |-> EmptyFile]
  /\ ppc' = "poll"
  /\ UNCHANGED << page, prspf, peng, pnavs, pout, page_url, phandled, pexpect >>
  /\ UNCHANGED baseVars

\* Page.goto: self._driver.navigate(url, timeout=timeout / 1000.0)
goto ==
  \E p \in Pages, u \in Urls, t \in GotoTimeouts :
    PageSend(p, "goto", Command(pops + 1, "navigate", u, "-", << >>, "-"), t, 0)

\* Page.click: self._driver.click(selector, timeout=60.0)
click ==
  \E p \in Pages, sel \in Selectors :
    PageSend(p, "click", Command(pops + 1, "click", "-", sel, << >>, "-"), PageTimeout, 0)

\* Page.fill: self._driver.fill(selector, value, timeout=60.0)
fill ==
  \E p \in Pages, sel \in Selectors, v \in FillValues :
    PageSend(p, "fill", Command(pops + 1, "fill", "-", sel, v, "-"), PageTimeout, 0)

\* Page.evaluate: self._driver.evaluate(expression, timeout=60.0)
evaluate ==
  \E p \in Pages, e \in Expressions :
    PageSend(p, "evaluate", Command(pops + 1, "evaluate", "-", "-", << >>, e), PageTimeout, 0)

\* Page.wait_for_selector: one self.evaluate of querySelector(...) !== null;
\* its timeout argument is not passed on
wait_for_selector ==
  \E p \in Pages, sel \in Selectors :
    PageSend(p, "wait_for_selector",
             Command(pops + 1, "evaluate", "-", sel, << >>, "exists"), PageTimeout, WaitTimeout)

\* Mutant: a goto that returns records its URL in every Page object.
PageEnd_shares_url(kind, value, result) ==
  /\ ppc' = "idle"
  /\ pcall' = NoPCall
  /\ pout' = [method |-> pcall.method, page |-> pcall.page, cmd |-> pcall.cmd,
              kind |-> kind, value |-> value, result |-> result,
              for |-> pcall.content.for, sent |-> pcall.content.js,
              elapsed |-> pcall.elapsed, wtimeout |-> pcall.wtimeout]
  /\ page_url' = IF pcall.method = "goto" /\ kind = "returned"
                 THEN [q \in PageObjects |-> pcall.cmd.url]
                 ELSE page_url
  /\ UNCHANGED pexpect

\* the Page method ends: it returns `result` or raises
PageEnd(kind, value, result) ==
  /\ ppc' = "idle"
  /\ pcall' = NoPCall
  /\ pout' = [method |-> pcall.method, page |-> pcall.page, cmd |-> pcall.cmd,
              kind |-> kind, value |-> value, result |-> result,
              for |-> pcall.content.for, sent |-> pcall.content.js,
              elapsed |-> pcall.elapsed, wtimeout |-> pcall.wtimeout]
  /\ page_url' = IF pcall.method = "goto" /\ kind = "returned"
                 THEN [page_url EXCEPT ![pcall.page] = pcall.cmd.url]
                 ELSE page_url
  /\ UNCHANGED pexpect

\* time.time() - start_time < timeout, on the capped clock
PWithinTimeout(c) ==
  IF c.elapsed < ClockCap THEN {c.elapsed < c.timeout}
  ELSE IF c.timeout <= ClockCap THEN {FALSE}
  ELSE {TRUE, FALSE}

\* one turn of send_command's wait loop
page_poll ==
  /\ ppc = "poll"
  /\ \E within \in PWithinTimeout(pcall) :
       IF ~within
       THEN PageEnd("timeout", PyNone, "none") /\ UNCHANGED prspf
       ELSE IF prspf # EmptyFile
       THEN /\ pcall' = [pcall EXCEPT !.content = prspf]
            /\ ppc' = "clear"
            /\ UNCHANGED << prspf, pout, page_url, pexpect >>
       ELSE /\ pcall' = [pcall EXCEPT !.elapsed =
                           IF pcall.elapsed + PollSleep < ClockCap
                           THEN pcall.elapsed + PollSleep ELSE ClockCap]
            /\ UNCHANGED << prspf, ppc, pout, page_url, pexpect >>
  /\ UNCHANGED << page, pcmdf, peng, pnavs, pops, phandled >>
  /\ UNCHANGED baseVars

\* the value a Page method makes of the driver's result
PageResult(method, value) ==
  CASE method \in {"click", "fill"} ->
         IF Truthy(value) THEN [kind |-> "returned", result |-> "None"]
         ELSE [kind |-> "error", result |-> "none"]
    [] method = "wait_for_selector" ->
         [kind |-> "returned", result |-> IF Truthy(value) THEN "ElementHandle" ELSE "None"]
    [] method = "goto" -> [kind |-> "returned", result |-> "content"]
    [] method \in {"text_content", "inner_html", "eval_on_selector"} ->
         IF value.t = "None" THEN [kind |-> "error", result |-> "none"]
         ELSE [kind |-> "returned", result |-> "value"]
    [] OTHER -> [kind |-> "returned", result |-> "value"]

\* the response file is emptied and the document read from it is decoded
page_clear ==
  /\ ppc = "clear"
  /\ prspf' = EmptyFile
  /\ IF pcall.content.type = "error"
     THEN PageEnd("engine_error", PyNone, "none")
     ELSE IF pcall.content.data = << >>
     THEN PageEnd("key_error", PyNone, "none")
     ELSE LET value == Loads(ReadText(pcall.content.data))
              r == PageResult(pcall.method, value)
          IN PageEnd(r.kind, value, r.result)
  /\ UNCHANGED << page, pcmdf, peng, pnavs, pops, phandled >>
  /\ UNCHANGED baseVars

\* launch() has returned: the session is started and READY was read
PageInit ==
  /\ process = 1
  /\ is_closed = FALSE
  /\ temp_scripts = << << 1, "cmd" >>, << 1, "rsp" >>, << 1, "js" >> >>
  /\ command_file = 1
  /\ response_file = 1
  /\ handles_open = TRUE
  /\ proc = [s \in Sessions |-> IF s = 1 THEN "running" ELSE "unborn"]
  /\ signalled = [s \in Sessions |-> "none"]
  /\ exists = { << 1, "cmd" >>, << 1, "rsp" >>, << 1, "js" >> }
  /\ cmdf = [s \in Sessions |-> NoCmd]
  /\ rspf = [s \in Sessions |-> Empty]
  /\ stdout = [s \in Sessions |-> << >>]
  /\ platform \in {"posix", "windows"}
  /\ epc = [s \in Sessions |-> IF s = 1 THEN "poll" ELSE "boot"]
  /\ ecur = [s \in Sessions |-> NoCmd]
  /\ navs = [s \in Sessions |-> {}]
  /\ ewr = [s \in Sessions |-> Empty]
  /\ executed = [s \in Sessions |-> << >>]
  /\ answers = [s \in Sessions |-> [owed |-> {}, given |-> << >>]]
  /\ pc = "idle"
  /\ op = "none"
  /\ call = NoCall
  /\ idx = 0
  /\ last = [op |-> "start", kind |-> "returned", id |-> 0, for |-> 0, timeout |-> 0]
  /\ start_elapsed = 0
  /\ destroyed = FALSE
  /\ ready_seen = {1}
  /\ ops = 1
  /\ nstarts = 1
  /\ nextId = 0
  /\ timedOut = FALSE
  /\ written = [s \in Sessions |-> << >>]
  /\ effects = [NoEffects EXCEPT !.spawned = TRUE]
  /\ PageIdle
  /\ ThreadsIdle

PageNext ==
  \/ goto
  \/ click
  \/ fill
  \/ evaluate
  \/ wait_for_selector
  \/ page_poll
  \/ page_clear
  \/ pe_take
  \/ pe_handle
  \/ pe_nav_loaded
  \/ pe_nav_settled
  \/ pe_timer

PageSpec == PageInit /\ [][PageNext]_vars

\* ==================================================================
\* Several Page objects of one Browser
\* ==================================================================

\* Page.goto through any of the Page objects
goto_page ==
  \E p \in PageObjects, u \in Urls, t \in GotoTimeouts :
    PageSend(p, "goto", Command(pops + 1, "navigate", u, "-", << >>, "-"), t, 0)

\* Page.evaluate("location.href") through any of the Page objects
evaluate_page ==
  \E p \in PageObjects :
    PageSend(p, "evaluate", Command(pops + 1, "evaluate", "-", "-", << >>, "location"),
             PageTimeout, 0)

MultiPageNext ==
  \/ goto_page
  \/ evaluate_page
  \/ page_poll
  \/ page_clear
  \/ pe_take
  \/ pe_handle
  \/ pe_nav_loaded
  \/ pe_nav_settled
  \/ pe_timer

MultiPageSpec == PageInit /\ [][MultiPageNext]_vars

\* ==================================================================
\* The Page methods that read an element
\* ==================================================================

\* Page.text_content: one evaluate of "el ? el.textContent : null"
text_content ==
  \E p \in Pages, sel \in Selectors :
    PageSend(p, "text_content",
             Command(pops + 1, "evaluate", "-", sel, << >>, "textContent"), PageTimeout, 0)

\* Page.inner_html: one evaluate of "el ? el.innerHTML : null"
inner_html ==
  \E p \in Pages, sel \in Selectors :
    PageSend(p, "inner_html",
             Command(pops + 1, "evaluate", "-", sel, << >>, "innerHTML"), PageTimeout, 0)

\* Page.eval_on_selector: one evaluate of the expression called on the
\* element, or null without an element
eval_on_selector ==
  \E p \in Pages, sel \in Selectors, e \in SelectorExpressions :
    PageSend(p, "eval_on_selector",
             Command(pops + 1, "evaluate", "-", sel, << >>, e), PageTimeout, 0)

ContentNext ==
  \/ goto
  \/ text_content
  \/ inner_html
  \/ eval_on_selector
  \/ page_poll
  \/ page_clear
  \/ pe_take
  \/ pe_handle
  \/ pe_nav_loaded
  \/ pe_nav_settled
  \/ pe_timer

ContentSpec == PageInit /\ [][ContentNext]_vars

\* ==================================================================
\* Page.pdf: the one-shot run of a temporary script
\* ==================================================================

\* Mutant: the temporary script is deleted after exec has returned, not in
\* a finally clause.
ScriptDeleted_on_return(k) == k # "script_timeout"

\* browser.py lines 73-74: "finally: os.unlink(temp_file)" runs however
\* exec ended.
ScriptDeleted(k) == TRUE

\* Lines 61-65, 197-214: Page.pdf builds the script around self._url and
\* _run_phantomjs_script writes it to a temporary .js file
pdf_call ==
  /\ ppc = "idle"
  /\ pdf.pc = "idle"
  /\ pops < MaxPageOps
  /\ pops' = pops + 1
  /\ \E p \in Pages :
       pout' = [NoPOut EXCEPT !.method = "pdf", !.page = p,
                             !.cmd = [NoPCmd EXCEPT !.url = page_url[p]]]
  /\ pdf' = [pc |-> "exec", script |-> TRUE, exit |-> "none"]
  /\ UNCHANGED << page, pcmdf, prspf, peng, pnavs, ppc, pcall, page_url, phandled, pexpect >>
  /\ UNCHANGED << driverVars, osVars, engineVars, callerVars, historyVars, threadVars >>

\* Lines 66-74: self._driver.exec with the .js path runs the engine once
\* and waits for it; then the script is deleted. A TimeoutExpired leaves
\* pdf through the finally clause.
pdf_run_script ==
  /\ pdf.pc = "exec"
  /\ \E k \in DriverExec :
       /\ pdf' = [pc |-> IF k = "script_timeout" THEN "idle" ELSE "returned",
                  script |-> pdf.script /\ ~ScriptDeleted(k),
                  exit |-> k]
       /\ pout' = IF k = "script_timeout" THEN [pout EXCEPT !.kind = "script_timeout"]
                  ELSE pout
  /\ UNCHANGED << page, pcmdf, prspf, peng, pnavs, ppc, pcall, page_url, pops, phandled,
                  pexpect >>
  /\ UNCHANGED << driverVars, osVars, engineVars, callerVars, historyVars, threadVars >>

\* Lines 216-223: a return code other than zero raises Error; otherwise the
\* file at path is opened and its bytes returned, and open raises OSError
\* when page.render has not produced the file
pdf_result ==
  /\ pdf.pc = "returned"
  /\ pdf' = [pdf EXCEPT !.pc = "idle"]
  /\ IF pdf.exit # "script_exit_zero"
     THEN pout' = [pout EXCEPT !.kind = "error"]
     ELSE \E rendered \in BOOLEAN :
            pout' = IF rendered THEN [pout EXCEPT !.kind = "returned", !.result = "bytes"]
                    ELSE [pout EXCEPT !.kind = "os_error"]
  /\ UNCHANGED << page, pcmdf, prspf, peng, pnavs, ppc, pcall, page_url, pops, phandled,
                  pexpect >>
  /\ UNCHANGED << driverVars, osVars, engineVars, callerVars, historyVars, threadVars >>

PdfNext ==
  \/ goto
  \/ pdf_call
  \/ pdf_run_script
  \/ pdf_result
  \/ page_poll
  \/ page_clear
  \/ pe_take
  \/ pe_nav_loaded
  \/ pe_nav_settled
  \/ pe_timer

PdfSpec == PageInit /\ [][PdfNext]_vars

\* ==================================================================
\* Threads that call send_command on one started session at once
\* ==================================================================

\* the command the command file holds and the engine has not read
UnreadCommand ==
  IF cmdf[command_file] # NoCmd
     /\ ~(epc[command_file] = "read" /\ ecur[command_file] = cmdf[command_file])
  THEN {cmdf[command_file].id}
  ELSE {}

\* thread t's send_command ends
TEnd(t, kind, for) ==
  /\ tpc' = [tpc EXCEPT ![t] = "idle"]
  /\ tlast' = [tlast EXCEPT ![t] = [op |-> "send", kind |-> kind, id |-> tcall[t].id,
                                    for |-> for, timeout |-> tcall[t].timeout]]
  /\ tcall' = [tcall EXCEPT ![t] = NoCall]

\* Lines 213-229 in thread t: the checks, then the command is written over
\* whatever the command file holds
t_send(t) ==
  /\ tpc[t] = "idle"
  /\ tcount[t] < MaxThreadCalls
  /\ tcount' = [tcount EXCEPT ![t] = @ + 1]
  /\ \E action \in Actions, timeout \in Timeouts :
       IF SendGuard = "ok"
       THEN /\ nextId' = nextId + 1
            /\ cmdf' = [cmdf EXCEPT ![command_file] = [id |-> nextId + 1, action |-> action]]
            /\ written' = [written EXCEPT ![command_file] = Append(@, nextId + 1)]
            /\ exists' = exists \cup {<<command_file, "cmd">>}
            /\ overwritten' = overwritten \cup UnreadCommand
            /\ tcall' = [tcall EXCEPT ![t] = [id |-> nextId + 1, action |-> action,
                                             timeout |-> timeout, elapsed |-> 0,
                                             content |-> Empty]]
            /\ tpc' = [tpc EXCEPT ![t] = "poll"]
            /\ tlast' = [tlast EXCEPT ![t] = NoLast]
       ELSE /\ tlast' = [tlast EXCEPT ![t] = [op |-> "send", kind |-> SendGuard, id |-> 0,
                                             for |-> 0, timeout |-> 0]]
            /\ UNCHANGED << nextId, cmdf, written, exists, overwritten, tcall, tpc >>
  /\ UNCHANGED << driverVars, proc, signalled, rspf, stdout, platform, engineVars,
                  callerVars, ops, nstarts, timedOut, effects, pageOnlyVars, pdfVars >>

\* Lines 230-236, 252-255 in thread t: one pass of the wait loop
t_poll(t) ==
  /\ tpc[t] = "poll"
  /\ IF ~(tcall[t].elapsed < tcall[t].timeout)
     THEN TEnd(t, "timeout", 0)
     ELSE IF <<response_file, "rsp">> \notin exists
     THEN TEnd(t, "os_error", 0)
     ELSE IF rspf[response_file] # Empty
     THEN /\ tcall' = [tcall EXCEPT ![t].content = rspf[response_file]]
          /\ tpc' = [tpc EXCEPT ![t] = "clear"]
          /\ UNCHANGED tlast
     ELSE /\ tcall' = [tcall EXCEPT ![t].elapsed = @ + PollSleep]
          /\ UNCHANGED << tpc, tlast >>
  /\ UNCHANGED << driverVars, osVars, engineVars, callerVars, historyVars, pageOnlyVars, pdfVars,
                  tcount, overwritten >>

\* Lines 237-250 in thread t: the response file is cleared and the content
\* read from it decoded
t_clear(t) ==
  /\ tpc[t] = "clear"
  /\ rspf' = [rspf EXCEPT ![response_file] = Empty]
  /\ exists' = exists \cup {<<response_file, "rsp">>}
  /\ IF Decode(tcall[t].content) = "not_json"
     THEN /\ tcall' = [tcall EXCEPT ![t].elapsed = @ + PollSleep, ![t].content = Empty]
          /\ tpc' = [tpc EXCEPT ![t] = "poll"]
          /\ UNCHANGED tlast
     ELSE TEnd(t, Decode(tcall[t].content), tcall[t].content.for)
  /\ UNCHANGED << driverVars, proc, signalled, cmdf, stdout, platform, engineVars,
                  callerVars, historyVars, pageOnlyVars, pdfVars, tcount, overwritten >>

OverlapNext ==
  \/ \E t \in Threads :
       \/ t_send(t)
       \/ t_poll(t)
       \/ t_clear(t)
  \/ \E s \in Sessions :
       \/ engine_read(s)
       \/ engine_clear(s)
       \/ engine_respond(s)
       \/ engine_finish_write(s)
       \/ engine_nav_loaded(s)
       \/ engine_nav_settled(s)
       \/ engine_exit(s)
       \/ engine_dies(s)

\* the threads start on the session launch() has started
OverlapSpec == PageInit /\ [][OverlapNext]_vars

\* ==================================================================
\* asyncio tasks that call Page operations on one Browser (gather)
\* ==================================================================
\* The tasks are the members of Threads, run by one event loop: tpc[t] is
\* "idle" while task t is not inside a Page operation, and a task that is
\* inside one keeps the loop until it awaits something that suspends.

\* Mutant: the wait loop sleeps with an awaited asyncio.sleep, which hands
\* the event loop to the other tasks.
AfterSleep_yields == "suspended"

\* Line 253 (and browser.py 44-99, 251-261, which await nothing): the wait
\* loop sleeps in time.sleep(0.05), inside the running task.
AfterSleep == "poll"

\* The event loop runs one task at a time: task t makes a step only while
\* no other task is running.
LoopFree(t) == \A u \in Threads \ {t} : tpc[u] \in {"idle", "suspended"}

\* task t is scheduled and its Page operation calls the driver, which
\* checks the session and writes the command
task_call(t) == LoopFree(t) /\ t_send(t)

\* one pass of the wait loop of task t's send_command
task_poll(t) ==
  /\ LoopFree(t)
  /\ tpc[t] \in {"poll", "suspended"}
  /\ IF ~(tcall[t].elapsed < tcall[t].timeout)
     THEN TEnd(t, "timeout", 0)
     ELSE IF <<response_file, "rsp">> \notin exists
     THEN TEnd(t, "os_error", 0)
     ELSE IF rspf[response_file] # Empty
     THEN /\ tcall' = [tcall EXCEPT ![t].content = rspf[response_file]]
          /\ tpc' = [tpc EXCEPT ![t] = "clear"]
          /\ UNCHANGED tlast
     ELSE /\ tcall' = [tcall EXCEPT ![t].elapsed = @ + PollSleep]
          /\ tpc' = [tpc EXCEPT ![t] = AfterSleep]
          /\ UNCHANGED tlast
  /\ UNCHANGED << driverVars, osVars, engineVars, callerVars, historyVars, pageOnlyVars, pdfVars,
                  tcount, overwritten >>

\* task t clears the response file and decodes what it read
task_clear(t) == LoopFree(t) /\ t_clear(t)

GatherNext ==
  \/ \E t \in Threads :
       \/ task_call(t)
       \/ task_poll(t)
       \/ task_clear(t)
  \/ \E s \in Sessions :
       \/ engine_read(s)
       \/ engine_clear(s)
       \/ engine_respond(s)
       \/ engine_finish_write(s)
       \/ engine_nav_loaded(s)
       \/ engine_nav_settled(s)
       \/ engine_exit(s)
       \/ engine_dies(s)

\* the tasks start on the session launch() has started
GatherSpec == PageInit /\ [][GatherNext]_vars

\* ------------------------------------------------------------------
\* Properties
\* ------------------------------------------------------------------

\* A send_command has just ended with a response: a returned result or a
\* raised engine error.
Answered == last.op = "send" /\ last.kind \in {"returned", "engine_error"}

\* C1: with no timed-out call before it on the session, the response a
\* send_command returns (or raises as the engine's error) is the one the
\* engine produced for the command that very call wrote.
C1_ResponseMatchesCommand ==
  (Answered /\ ~timedOut) => last.for = last.id

\* C1 witness: the second command of a session got its own response.
C1_Witness ==
  Answered /\ ~timedOut /\ last.kind = "returned" /\ last.for = last.id
    /\ Len(written[command_file]) = 2

\* C2: once close() has completed, a send_command raises the session error
\* before the command file is written or the response file read, and none is
\* ever inside its wait loop.
C2_ClosedSendRaises ==
  is_closed =>
    /\ op # "send"
    /\ last.op = "send" =>
         /\ last.kind \in {"session_error", "closed_error"}
         /\ ~effects.wrote
         /\ ~effects.read

\* C2 witness: a send_command on a closed driver whose session was started
\* again raised "Driver has been closed".
C2_Witness ==
  is_closed /\ last.op = "send" /\ last.kind = "closed_error" /\ Alive(process)

\* C3 (as claimed): when close() has returned, the engine process of the
\* session is not running any more.
C3_EngineStoppedAfterClose ==
  (last.op = "close" /\ last.kind = "returned" /\ command_file # None)
    => proc[command_file] # "running"

\* C4 (as claimed): when close() has returned, none of the recorded
\* temporary files is on disk.
C4_NoTempFilesAfterClose ==
  (last.op = "close" /\ last.kind = "returned")
    => \A i \in 1..Len(temp_scripts) : temp_scripts[i] \notin exists

\* C5: close() ends only by returning, with the closed flag set and no
\* process handle; and while it runs it always has a next step.
C5_CloseNeverRaises ==
  /\ last.op = "close" => (last.kind = "returned" /\ is_closed /\ process = None)
  /\ op = "close" => pc \in {"send_poll", "send_clear", "close_terminate", "close_wait", "close_unlink"}
  /\ (op = "close" /\ pc = "close_unlink") => idx \in 1..(Len(temp_scripts) + 1)

\* C5 witness: close() returned although the engine had to be killed and the
\* deletion of a temporary file failed.
C5_Witness ==
  /\ last.op = "close" /\ last.kind = "returned"
  /\ effects.unlink_failed
  /\ command_file # None /\ proc[command_file] = "killed"

C7_ThreeOutcomes ==
  (last.op = "send" /\ last.id # 0) => last.kind \in {"returned", "engine_error", "timeout"}

\* C8 (as claimed): a send_command with the 1 ms timeout ends in
\* TimeoutError.
C8_TinyTimeoutAlwaysTimesOut ==
  (last.op = "send" /\ last.id # 0 /\ last.timeout = 1) => last.kind = "timeout"

\* C9: when a send_command has returned or raised an engine error, and no
\* earlier call on the session timed out, both channel files are empty and
\* the engine has nothing left to write.
C9_ChannelsEmptyAfterExchange ==
  (Answered /\ ~timedOut) =>
    /\ cmdf[command_file] = NoCmd
    /\ rspf[response_file] = Empty
    /\ Alive(process) => (navs[process] = {} /\ epc[process] \in {"boot", "poll"})

\* C9 witness: an exchange ended with both channel files empty.
C9_Witness ==
  /\ Answered /\ ~timedOut /\ last.kind = "engine_error"
  /\ cmdf[command_file] = NoCmd /\ rspf[response_file] = Empty

\* C10: while no call of the session has timed out, the engine has executed
\* the commands written so far in the order they were written, each once:
\* all of them when the caller is between calls, all but possibly the last
\* while a call is waiting.
IsPrefix(a, b) == Len(a) <= Len(b) /\ \A i \in 1..Len(a) : a[i] = b[i]

C10_ExecutedInWriteOrder ==
  (~timedOut /\ command_file # None) =>
    /\ IsPrefix(executed[command_file], written[command_file])
    /\ Len(executed[command_file]) >= Len(written[command_file]) - 1
    /\ Answered => executed[command_file] = written[command_file]

\* C10 witness: two commands were written and executed, in that order.
C10_Witness ==
  /\ Answered /\ ~timedOut
  /\ Len(written[command_file]) = 2
  /\ executed[command_file] = written[command_file]

\* C11: a response of type error is raised as the engine's error by the step
\* that follows its read, inside the timeout, with no sleep in between and no
\* command written again; the response file is empty when it is raised.
C11_ErrorRaisedAtOnce ==
  /\ [](pc = "send_clear" => call.elapsed < call.timeout)
  /\ [][(pc = "send_clear" /\ call.content.type = "error" /\ pc' # pc)
          => /\ pc' # "send_poll"
             /\ last'.kind = "engine_error"
             /\ last'.id = call.id /\ last'.for = call.content.for
             /\ rspf'[response_file] = Empty
             /\ nextId' = nextId /\ written' = written /\ cmdf' = cmdf]_vars

\* C11 witness: the only command of a session, sent with the 100 ms timeout,
\* ended in the engine's error for it.
C11_Witness ==
  /\ last.op = "send" /\ last.kind = "engine_error" /\ last.timeout = 100
  /\ last.for = last.id /\ Len(written[command_file]) = 1
  /\ rspf[response_file] = Empty

\* C12 (as claimed): start_persistent_session is inside its READY loop for no
\* longer than the startup timeout.
C12_StartEndsAtTimeout ==
  Starting => start_elapsed <= StartTimeout

\* C13 (as claimed): when start_persistent_session has returned normally, a
\* line containing READY has been read from the standard output of the
\* engine the driver holds.
C13_ReturnsOnlyAfterReady ==
  (last.op = "start" /\ last.kind \in {"returned", "noop"})
    => (process # None /\ process \in ready_seen)

\* C14 (as claimed): when the finalizer of a driver that held a running engine
\* has run, it has performed the close sequence.
C14_FinalizerClosesOwnedEngine ==
  (destroyed /\ pc = "idle" /\ effects.owned)
    => (last.op = "close" /\ last.kind = "returned" /\ process = None)

\* C18 (as claimed): two failures of different kinds that reach the caller
\* one after the other are raised as different exception types.
C18_OneTypePerFailureKind ==
  [][(/\ last.kind \in DOMAIN FailureKinds
      /\ last'.kind \in DOMAIN FailureKinds
      /\ FailureKinds[last.kind] # FailureKinds[last'.kind])
       => ExceptionType[last.kind] # ExceptionType[last'.kind]]_vars

\* C19: an exec whose arguments hold a script path ending in .js is over in
\* one step of the driver: it writes no command, reads no response, starts
\* no session, and leaves the process handle, the closed flag, the recorded
\* files, the files on disk, their content and the engine as they were.
C19_ScriptExecLeavesSessionAlone ==
  [][(ops' = ops + 1 /\ effects'.exec /\ "js" \in effects'.args)
       => /\ UNCHANGED << driverVars, proc, signalled, exists, cmdf, rspf, stdout,
                          engineVars, nstarts, nextId, written, timedOut >>
          /\ pc' = "idle" /\ op' = op
          /\ last'.op = "exec" /\ last'.kind \in DriverExec
          /\ ~effects'.wrote /\ ~effects'.read /\ ~effects'.spawned]_vars

\* C19 witness: a script was run through exec, next to --version, while the
\* session's engine was running and had executed a command.
C19_Witness ==
  /\ last.op = "exec" /\ last.kind = "script_exit_zero"
  /\ effects.args = {"js", "version"}
  /\ AlreadyRunning /\ Len(executed[process]) = 1

\* C20: Page.wait_for_selector(selector, timeout) waits up to timeout ms for
\* the element: it returns None only once that time has passed without the
\* element appearing.  (pout.elapsed below ClockCap is the exact time the
\* call took.)
C20_NoneOnlyAfterTimeout ==
  (/\ pout.method = "wait_for_selector"
   /\ pout.kind = "returned"
   /\ pout.result = "None"
   /\ pout.elapsed < ClockCap)
  => pout.elapsed >= pout.wtimeout

\* what the selector of the last Page method matched when the engine
\* handled its command (or matches now, if the engine has not handled it)
Matched ==
  IF phandled[pout.cmd.id] # "unhandled"
  THEN phandled[pout.cmd.id] = "match"
  ELSE pout.cmd.sel \in Elements(page)

\* C15: a click or fill whose selector matches no element returns false at
\* the driver layer and Page.click / Page.fill raise Error for exactly
\* those calls; with a matching element the driver returns true and the
\* Page method does not raise.
C15_ErrorIffNoMatch ==
  (pout.method \in {"click", "fill"} /\ pout.kind \in {"returned", "error"})
  => /\ pout.value.t = "bool"
     /\ pout.value.v[1] = Matched
     /\ (pout.kind = "error") <=> ~Matched

\* the Python value py is the JSON value js, with its type
SameJson(py, js) ==
  CASE js.t = "null" -> py.t = "None"
    [] js.t = "boolean" -> py.t = "bool" /\ py.v = js.v
    [] js.t = "number" -> py.t = "int" /\ py.v = js.v
    [] js.t = "string" -> py.t = "str" /\ py.v = js.v
    [] OTHER -> FALSE

\* C17: when the engine answers with a result document whose data is the
\* JSON value v, the send_command that consumes the document returns
\* exactly v, with its type.
C17_ReturnsExactData ==
  (pout.kind \in {"returned", "error"}) => SameJson(pout.value, pout.sent)

\* the engine runs the handler of an evaluate, click or fill command
Handles == peng.pc = "handle" /\ peng'.pc = "poll"

Stale(r) == r.type \in {"result", "error"} /\ r.for # call.id

\* C21: the response the engine writes for a command whose send_command
\* has timed out is consumed by the next send_command: a call finds such a
\* response only after a timeout on the session, its first poll reads
\* whatever whole response the file holds, and the call ends with that
\* response as its own outcome (returned, or raised as the engine's error).
C21_StaleResponseConsumed ==
  [][/\ (pc = "send_poll" /\ call.elapsed = 0 /\ <<response_file, "rsp">> \in exists
         /\ Stale(rspf[response_file]) /\ call' # call)
        => (pc' = "send_clear" /\ call'.content = rspf[response_file])
     /\ (pc = "send_clear" /\ pc' # "send_clear" /\ Stale(call.content))
        => /\ timedOut
           /\ pc' # "send_poll"
           /\ last'.id = call.id
           /\ last'.for = call.content.for
           /\ last'.kind = (IF call.content.type = "error" THEN "engine_error"
                            ELSE IF call.content.data = "absent" THEN "key_error"
                            ELSE "returned")]_vars

\* a send_command returned the result the engine wrote for the command of
\* an earlier call, which had timed out
C21_Witness ==
  /\ last.op = "send"
  /\ last.kind = "returned"
  /\ last.for # 0
  /\ last.for < last.id
  /\ timedOut

\* C22: two send_command calls that overlap on one session race on the two
\* files.  A command written over one the engine had not read replaces it,
\* and the overwritten command is never executed; a thread that reads a
\* whole response ends its call with it, whichever command it answers.
C22_OverlapMisattributes ==
  /\ [](\A k \in overwritten :
          /\ cmdf[command_file].id # k
          /\ \A i \in 1..Len(executed[command_file]) : executed[command_file][i] # k)
  /\ [][\A t \in Threads :
          (tpc[t] = "clear" /\ tpc'[t] # "clear"
             /\ tcall[t].content.type \in {"result", "error"})
          => /\ tlast'[t].id = tcall[t].id
             /\ tlast'[t].for = tcall[t].content.for
             /\ tlast'[t].kind \in {"returned", "engine_error", "key_error"}]_vars

\* a thread whose command was overwritten unread has returned the result of
\* the other thread's command while the other thread is still waiting
C22_Witness ==
  \E t, u \in Threads :
    /\ t # u
    /\ tlast[t].kind = "returned"
    /\ tlast[t].id \in overwritten
    /\ tpc[u] = "poll"
    /\ tlast[t].for = tcall[u].id

\* C23: a send_command that read its response while the engine was still
\* writing it does not raise a protocol error and keeps polling, and once
\* the engine's write has finished the response file holds the complete
\* response for the call to return.
C23_PartialReadThenWholeResponse ==
  (/\ pc = "send_poll" /\ op = "send"
   /\ effects.unparsed /\ ~timedOut
   /\ Alive(process) /\ epc[process] = "poll")
  => /\ rspf[response_file].type \in {"result", "error"}
     /\ rspf[response_file].for = call.id

\* C24 (as stated): close() on a running engine reaches terminate() only
\* through its send_command('close') ending in TimeoutError after 5 s,
\* unless that call consumed a stale response.
C24_TerminateOnlyAfterTimeout ==
  (op = "close" /\ pc = "close_terminate" /\ last.for = 0)
  => (last.op = "close_send" /\ last.kind = "timeout" /\ last.timeout = CloseTimeout)

\* C24 (amended): the engine writes no response to the close command, so
\* the send_command('close') inside close() never returns normally unless
\* it consumes a stale response: it ends in TimeoutError once 5 s have
\* passed, or is refused by send_command's own checks before anything is
\* written, and in both cases close() goes on to terminate().
C24_CloseSendNeverAnswered ==
  /\ [](call.action = "close"
          => /\ rspf[response_file].for # call.id
             /\ ewr[response_file].for # call.id
             /\ call.content.for # call.id)
  /\ [][/\ (op = "close" /\ InWaitLoop /\ ~InWaitLoop')
             => \/ last'.for # 0 /\ last'.for # last'.id
                \/ /\ last'.kind = "timeout"
                   /\ call.elapsed >= CloseTimeout
                   /\ pc' = "close_terminate"
        /\ (op # "close" /\ op' = "close" /\ CloseSends)
             => \/ pc' = "send_poll" /\ call'.action = "close" /\ SendGuard = "ok"
                \/ pc' = "close_terminate" /\ SendGuard # "ok" /\ call' = call]_vars

\* close()'s send_command has timed out with no response read and close()
\* is about to terminate the engine
C24_Witness ==
  /\ op = "close"
  /\ pc = "close_terminate"
  /\ last.op = "close_send"
  /\ last.kind = "timeout"
  /\ last.timeout = CloseTimeout
  /\ last.for = 0

\* ids of the responses the engine of session s has written, and of the
\* commands it is still working on
Given(s) == {answers[s].given[i] : i \in 1..Len(answers[s].given)}
Pending(s) ==
  (IF epc[s] = "handle" THEN {ecur[s].id} ELSE {}) \cup {n.id : n \in navs[s]}

C26_ExecutedAtMostOnce ==
  /\ [](\A s \in Sessions :
          \A i, j \in 1..Len(executed[s]) : executed[s][i] = executed[s][j] => i = j)
  /\ [][\A s \in Sessions :
          executed'[s] # executed[s]
          => /\ epc[s] = "read"
             /\ executed'[s] = Append(executed[s], ecur[s].id)
             /\ cmdf'[s] = NoCmd]_vars

\* a navigation is still loading after the engine has polled again and
\* dispatched the next command
C26_Witness ==
  /\ Alive(process)
  /\ Len(executed[process]) = 2
  /\ \E n \in navs[process] : n.stage = "loading" /\ n.id = executed[process][1]

C28_CloseAfterFailedStart ==
  /\ (last.op \in {"start", "exec"} /\ last.kind = "startup_error")
       => /\ process # None
          /\ \A kind \in {"cmd", "rsp", "js"} :
               \E i \in 1..Len(temp_scripts) : temp_scripts[i] = <<process, kind>>
  /\ (/\ last.op = "close" /\ last.kind = "returned"
      /\ command_file # None /\ command_file \notin ready_seen)
       => /\ proc[command_file] # "running"
          /\ \A kind \in {"cmd", "rsp", "js"} : <<command_file, kind>> \notin exists

\* C29: the closed flag is absorbing. Once it is set no step of the driver
\* or of an engine resets it, whatever is called afterwards, a start that
\* spawns a new engine included; no command is written any more, and a
\* send_command that ends (a caller's, or the one inside a later close())
\* ends in "Driver has been closed" or "Persistent session not started".
C29_ClosedIsAbsorbing ==
  [][is_closed =>
       /\ is_closed'
       /\ written' = written /\ nextId' = nextId
       /\ (last' # last /\ last'.op \in {"send", "close_send"})
            => last'.kind \in {"closed_error", "session_error"}]_vars

\* a session was started on a driver closed before, its READY line was
\* read, and a send_command on it was refused
C29_Witness ==
  /\ is_closed
  /\ nstarts = 1 /\ process = 1 /\ Alive(1) /\ 1 \in ready_seen
  /\ last.op = "send" /\ last.kind = "closed_error"

\* C30 (as claimed): a pass of the wait loop that cannot read the response
\* file because it is missing counts as "not ready": the call stays in the
\* wait loop, to end in TimeoutError at the latest.
C30_ReadFailureRetried ==
  [][(/\ pc = "send_poll" /\ WithinTimeout
      /\ <<response_file, "rsp">> \notin exists)
       => pc' = "send_poll"]_vars

\* C31 (as claimed): whatever response document the engine wrote, the
\* send_command under a Page method ends in returned data (of which click
\* and fill make their own Error when it is falsy), in the driver's error
\* for an engine-reported error, or in TimeoutError.
C31_ThreeOutcomesForEveryDocument ==
  pout.method # "none" => pout.kind \in {"returned", "error", "engine_error", "timeout"}

C37_NotFoundIffNoMatch ==
  (/\ pout.method \in {"text_content", "inner_html", "eval_on_selector"}
   /\ pout.kind \notin {"timeout", "engine_error"})
    => /\ pout.kind \in {"returned", "error"}
       /\ (pout.kind = "error") <=> ~Matched

\* C34: start_persistent_session on a driver whose engine process is
\* running returns at once: it spawns no process, creates and records no
\* temporary file, and leaves the channel files, their content, the closed
\* flag and the engine as they were.
C34_StartOnRunningEngineIsNoop ==
  [][(/\ process # None /\ proc[process] = "running"
      /\ pc = "idle" /\ ops' = ops + 1
      /\ (op' = "start" \/ last'.op = "start"))
       => /\ UNCHANGED << driverVars, osVars, engineVars, nstarts, nextId, written >>
          /\ pc' = "idle" /\ op' = op
          /\ last'.op = "start" /\ last'.kind = "noop"
          /\ ~effects'.spawned]_vars

\* start_persistent_session returned at once on the session that had
\* already executed a command
C34_Witness ==
  /\ last.op = "start" /\ last.kind = "noop"
  /\ nstarts = 1 /\ process = 1 /\ Alive(1)
  /\ Len(executed[1]) = 1
  /\ Len(temp_scripts) = 3

\* C35 (as claimed): an exec whose arguments hold neither a .js script nor
\* --version raises NotImplementedError and has started no engine process
\* and created no temporary file.
C35_UnsupportedExecLeavesDriverAlone ==
  (last.op = "exec" /\ last.kind = "not_implemented") => ~effects.spawned

\* C36: Page.pdf raises Error exactly when the one-shot run of the engine
\* ended with an exit code other than zero, and the temporary script is on
\* disk only while that run is under way: it is gone however pdf ended, by
\* returning, by raising Error or by the subprocess timeout.
C36_ErrorIffNonZeroExit ==
  /\ (pout.method = "pdf" /\ pdf.pc = "idle")
       => /\ (pout.kind = "error") <=> (pdf.exit = "script_exit_nonzero")
          /\ (pout.kind = "returned") => (pdf.exit = "script_exit_zero")
          /\ (pout.kind = "script_timeout") <=> (pdf.exit = "script_timeout")
  /\ pdf.pc # "exec" => ~pdf.script

\* a pdf of a Page object that had navigated ended in the subprocess
\* timeout, and its temporary script is gone
C36_Witness ==
  /\ pout.method = "pdf" /\ pout.kind = "script_timeout"
  /\ pout.cmd.url = "form"
  /\ pdf.pc = "idle" /\ pdf.exit = "script_timeout"
  /\ ~pdf.script

====
